---- MODULE Spec2Model ----
(***************************************************************************)
(* Model of custom_shelf.py: the CustomShelf class that scans a directory  *)
(* tree and builds a Maya shelf from it.  Strings are sequences of         *)
(* one-character strings, so that the regular expressions, os.path calls   *)
(* and string formatting of the source are computed, not assumed.          *)
(***************************************************************************)
EXTENDS Integers, Sequences, FiniteSets, TLC

(***************************************************************************)
(* Bounds of the model.                                                    *)
(***************************************************************************)
MaxCalls == 3
MaxPopupFiles == 3
MaxFlatFiles == 3
MaxRootEntries == 3
MaxIconFiles == 2

(***************************************************************************)
(* Strings.                                                                *)
(***************************************************************************)
EMPTY == << >>

Range(s) == {s[i] : i \in 1..Len(s)}

\* The characters the file names of the model use, in code point order
\* (Python compares str by code point).
Alphabet == <<" ", ".", "/", "_", "a", "b", "c", "d", "e", "f", "g", "h", "i",
              "j", "k", "l", "m", "n", "o", "p", "q", "r", "s", "t", "u", "v",
              "w", "x", "y", "z">>

Code(c) == CHOOSE i \in 1..Len(Alphabet) : Alphabet[i] = c

\* a < b for two str, as list.sort() compares them
RECURSIVE StrLess(_, _)
StrLess(a, b) ==
    IF a = EMPTY THEN b # EMPTY
    ELSE IF b = EMPTY THEN FALSE
    ELSE IF Head(a) = Head(b) THEN StrLess(Tail(a), Tail(b))
    ELSE Code(Head(a)) < Code(Head(b))

\* list.remove(x): drops the first element equal to x
RemoveFirst(s, x) ==
    IF \E i \in 1..Len(s) : s[i] = x
    THEN LET k == CHOOSE i \in 1..Len(s) : s[i] = x /\ \A j \in 1..(i-1) : s[j] # x
         IN  SubSeq(s, 1, k-1) \o SubSeq(s, k+1, Len(s))
    ELSE s

RECURSIVE InsertSorted(_, _)
InsertSorted(s, x) ==
    IF s = EMPTY THEN <<x>>
    ELSE IF StrLess(x, Head(s)) THEN <<x>> \o s
    ELSE <<Head(s)>> \o InsertSorted(Tail(s), x)

\* list.sort() on a list of str
RECURSIVE SortStrs(_)
SortStrs(s) == IF s = EMPTY THEN EMPTY ELSE InsertSorted(SortStrs(Tail(s)), Head(s))

\* re.search(pat + "$", s) for a pattern of literal characters and ".",
\* which matches any character
SuffixMatch(pat, s) ==
    /\ Len(s) >= Len(pat)
    /\ \A i \in 1..Len(pat) : pat[i] = "." \/ pat[i] = s[Len(s) - Len(pat) + i]

\* re.search("(p1|p2|...)$", s)
Search(alts, s) == \E p \in alts : SuffixMatch(p, s)

\* re.sub(pat + "$", "", s)
SubSuffix(pat, s) == IF SuffixMatch(pat, s) THEN SubSeq(s, 1, Len(s) - Len(pat)) ELSE s

\* str.replace("_", " ")
ReplaceUnderscore(s) == [i \in 1..Len(s) |-> IF s[i] = "_" THEN " " ELSE s[i]]

\* str.split(".")[0]
SplitDotFirst(s) ==
    IF \E i \in 1..Len(s) : s[i] = "."
    THEN SubSeq(s, 1, (CHOOSE i \in 1..Len(s) : s[i] = "." /\ \A j \in 1..(i-1) : s[j] # ".") - 1)
    ELSE s

(***************************************************************************)
(* os.path                                                                 *)
(***************************************************************************)
LastSlash(p) ==
    IF \E i \in 1..Len(p) : p[i] = "/"
    THEN CHOOSE i \in 1..Len(p) : p[i] = "/" /\ \A j \in (i+1)..Len(p) : p[j] # "/"
    ELSE 0

Basename(p) == SubSeq(p, LastSlash(p) + 1, Len(p))

Dirname(p) == IF LastSlash(p) <= 1 THEN SubSeq(p, 1, LastSlash(p)) ELSE SubSeq(p, 1, LastSlash(p) - 1)

Join(d, n) ==
    IF d = EMPTY THEN n
    ELSE IF d[Len(d)] = "/" THEN d \o n
    ELSE d \o <<"/">> \o n

(***************************************************************************)
(* The patterns and literals of the source.                                *)
(***************************************************************************)
PY == <<".", "p", "y">>
MEL == <<".", "m", "e", "l">>
DCC == <<"_", "d", "c", "c">>
ICONS == <<"i", "c", "o", "n", "s">>
INITPY == <<"_", "_", "i", "n", "i", "t", "_", "_">> \o PY
DefaultIcon == <<"c", "o", "m", "m", "a", "n", "d", "B", "u", "t", "t", "o", "n", ".", "p", "n", "g">>

ScriptRe == {PY, MEL}
DccRe == {DCC \o PY, DCC \o MEL}
IconRe(tool_name) ==
    {tool_name \o <<".", "p", "n", "g">>, tool_name \o <<".", "j", "p", "g">>,
     tool_name \o <<"j", "p", "e", "g">>, tool_name \o <<".", "s", "v", "g">>}
ButtonScriptRe(tool_name) == {tool_name \o PY, tool_name \o MEL}

PyCommand(file_path) == <<"exec(open(\"">> \o file_path \o <<"\").read())">>
MelCommand(file_path) == <<"import maya.mel; maya.mel.eval('source \"">> \o file_path \o <<"\"')">>

\* filter_py_mel: <<tool_name, command>>
filter_py_mel(file_path) ==
    IF SuffixMatch(PY, file_path)
    THEN <<SubSuffix(PY, Basename(file_path)), PyCommand(file_path)>>
    ELSE IF SuffixMatch(MEL, file_path)
    THEN <<SubSuffix(MEL, Basename(file_path)), MelCommand(file_path)>>
    ELSE <<EMPTY, EMPTY>>

(***************************************************************************)
(* The filesystem: the set of directories and the listing of each, in the  *)
(* order os.listdir returns it.                                            *)
(***************************************************************************)
IsDir(f, p) == p \in f.dirs

PathExists(f, p) ==
    \/ p \in f.dirs
    \/ Dirname(p) \in f.dirs /\ Basename(p) \in Range(f.list[Dirname(p)])

AddDir(f, p) ==
    [dirs |-> f.dirs \cup {p},
     list |-> [d \in f.dirs \cup {p} |->
                 IF d = p THEN EMPTY
                 ELSE IF d = Dirname(p) THEN Append(f.list[d], Basename(p))
                 ELSE f.list[d]]]

\* os.makedirs: creates the missing ancestors first
RECURSIVE MakeDirs(_, _)
MakeDirs(f, p) ==
    IF p \in f.dirs \/ p = EMPTY THEN f
    ELSE AddDir(MakeDirs(f, Dirname(p)), p)

(***************************************************************************)
(* The object and the host.  A world w is the record of the object's       *)
(* fields (categories, tool_paths, popup_tool_dict, popup_menus, shelf),   *)
(* the filesystem fs, the host's shelf layouts, the next widget handle,    *)
(* and whether the running call has raised.  cat, role and src tag the     *)
(* widgets with the loop iteration that created them; deletes counts the   *)
(* deleteUI calls of the running call.                                     *)
(***************************************************************************)
shelf_directory == <<"r">>
shelf_name == "name"
icon_path == Join(shelf_directory, ICONS)
\* None: as a str argument (told apart from every str), and as a widget handle
None == <<"None">>
NoHandle == 0

SetKey(f, k, v) == [x \in (DOMAIN f) \cup {k} |-> IF x = k THEN v ELSE f[x]]

(***************************************************************************)
(* Discovery                                                               *)
(***************************************************************************)
get_tools_from_dir(w, directory, category) ==
    LET category_dir == Join(directory, category)
        w1 == [w EXCEPT !.tool_paths = SetKey(@, category, EMPTY)]
        keep(tool_file) == Search(ScriptRe, tool_file) /\ ~Search(DccRe, tool_file)
        files == SelectSeq(w.fs.list[category_dir], keep)
    IN  IF ~IsDir(w.fs, category_dir)
        THEN [w1 EXCEPT !.raised = TRUE]   \* os.listdir raises NotADirectoryError
        ELSE [w1 EXCEPT !.tool_paths =
                 SetKey(@, category, [i \in 1..Len(files) |-> Join(category_dir, files[i])])]

\* The loop of lines 72-74: a for loop over the list that list.remove()
\* shortens; the iterator's index advances after every element.
RECURSIVE FilterInPlace(_, _)
FilterInPlace(lst, i) ==
    IF i > Len(lst) THEN lst
    ELSE IF Search(DccRe, lst[i]) \/ ~Search(ScriptRe, lst[i])
    THEN FilterInPlace(RemoveFirst(lst, lst[i]), i + 1)
    ELSE FilterInPlace(lst, i + 1)

get_popup_tools_from_dir(w, directory, category) ==
    LET category_dir == Join(directory, category)
        isTool(tool) == IsDir(w.fs, Join(category_dir, tool))
        tools == SelectSeq(w.fs.list[category_dir], isTool)
        entry(tool) ==
            LET tool_path == Join(category_dir, tool)
                listed == w.fs.list[tool_path]
            IN  [path |-> tool_path,
                 files |-> FilterInPlace([i \in 1..Len(listed) |-> Join(tool_path, listed[i])], 1)]
    IN  [w EXCEPT !.popup_tool_dict = SetKey(@, category, [i \in 1..Len(tools) |-> entry(tools[i])])]

RECURSIVE DiscoverFrom(_, _, _)
DiscoverFrom(w, directory, i) ==
    IF i > Len(w.categories) THEN w
    ELSE LET w1 == get_tools_from_dir(w, directory, w.categories[i])
         IN  IF w1.raised THEN w1
             ELSE DiscoverFrom(get_popup_tools_from_dir(w1, directory, w.categories[i]), directory, i + 1)

\* get_all_tools without the os.path.exists test of lines 83-84
get_all_tools_unguarded(w, directory) ==
    IF ~IsDir(w.fs, directory) THEN [w EXCEPT !.raised = TRUE]
    ELSE LET sorted == SortStrs(w.fs.list[directory])
             cats == IF ICONS \in Range(sorted) THEN RemoveFirst(sorted, ICONS) ELSE sorted
         IN  DiscoverFrom([w EXCEPT !.categories = cats], directory, 1)

get_all_tools(w, directory) ==
    IF ~PathExists(w.fs, directory) THEN w
    ELSE IF ~IsDir(w.fs, directory) THEN [w EXCEPT !.raised = TRUE]
    ELSE LET sorted == SortStrs(w.fs.list[directory])
             cats == IF ICONS \in Range(sorted) THEN RemoveFirst(sorted, ICONS) ELSE sorted
         IN  DiscoverFrom([w EXCEPT !.categories = cats], directory, 1)

(***************************************************************************)
(* Utils                                                                   *)
(***************************************************************************)
\* find_dcc_command testing the python script before the mel script
find_dcc_command_py_first(f, script_path) ==
    LET dcc_script_without_extention == Join(Dirname(script_path), SplitDotFirst(Basename(script_path)))
        mel_script == dcc_script_without_extention \o DCC \o MEL
        python_script == dcc_script_without_extention \o DCC \o PY
    IN  IF PathExists(f, python_script) THEN python_script
        ELSE IF PathExists(f, mel_script) THEN mel_script
        ELSE EMPTY

find_dcc_command(f, script_path) ==
    LET dcc_script_without_extention == Join(Dirname(script_path), SplitDotFirst(Basename(script_path)))
        mel_script == dcc_script_without_extention \o DCC \o MEL
        python_script == dcc_script_without_extention \o DCC \o PY
    IN  IF PathExists(f, mel_script) THEN mel_script
        ELSE IF PathExists(f, python_script) THEN python_script
        ELSE EMPTY

\* find_icon: [w |-> the world after the call, value |-> the returned str]
find_icon(w, tool_name) ==
    IF ~PathExists(w.fs, icon_path)
    THEN [w |-> [w EXCEPT !.fs = MakeDirs(@, icon_path)], value |-> DefaultIcon]
    ELSE LET isIcon(icon_file) == Search(IconRe(tool_name), icon_file)
             hits == SelectSeq(w.fs.list[icon_path], isIcon)
             tool_icon_file == IF hits # EMPTY THEN hits[1] ELSE DefaultIcon
         IN  [w |-> w, value |-> Join(icon_path, tool_icon_file)]

(***************************************************************************)
(* The host toolkit (maya.cmds): shelf layouts with their children.        *)
(***************************************************************************)
LayoutExists(w, name) == \E i \in 1..Len(w.layouts) : w.layouts[i].name = name

LiveIndex(w, handle) == CHOOSE i \in 1..Len(w.layouts) : w.layouts[i].id = handle

IsLiveLayout(w, handle) == \E i \in 1..Len(w.layouts) : w.layouts[i].id = handle

\* cmds.shelfLayout(name, parent="ShelfLayout")
shelfLayout(w, name) ==
    [w EXCEPT !.layouts = Append(@, [name |-> name, id |-> w.nextId, children |-> EMPTY]),
              !.shelf = w.nextId,
              !.nextId = @ + 1]

AppendChild(w, child) ==
    IF ~IsLiveLayout(w, w.shelf) THEN [w EXCEPT !.raised = TRUE]
    ELSE [w EXCEPT !.layouts[LiveIndex(w, w.shelf)].children = Append(@, child),
                   !.nextId = @ + 1]

\* cmds.shelfButton(l=, command=, image=, parent=self.shelf, doubleClickCommand=);
\* the new button's handle is w.nextId, and so is its popup menu's
shelfButton(w, label, command, image, dcc) ==
    AppendChild(w, [kind |-> "button", id |-> w.nextId, label |-> label, command |-> command,
                    image |-> image, dcc |-> dcc, items |-> EMPTY,
                    cat |-> w.cat, role |-> w.role, src |-> w.src])

\* cmds.separator(..., parent=self.shelf)
separator(w) ==
    AppendChild(w, [kind |-> "separator", id |-> w.nextId, label |-> EMPTY, command |-> EMPTY,
                    image |-> EMPTY, dcc |-> EMPTY, items |-> EMPTY,
                    cat |-> w.cat, role |-> "separator", src |-> EMPTY])

\* the live popup menus: <<layout index, child index>> of the buttons that own them
MenuOwners(w, menu) ==
    {ij \in UNION {{<<i, j>> : j \in 1..Len(w.layouts[i].children)} : i \in 1..Len(w.layouts)} :
        /\ w.layouts[ij[1]].children[ij[2]].kind = "button"
        /\ w.layouts[ij[1]].children[ij[2]].id = menu}

\* cmds.menuItem(label=, sourceType="python", parent=menu, command=)
menuItem(w, label, menu, command) ==
    IF MenuOwners(w, menu) = {} THEN [w EXCEPT !.raised = TRUE]
    ELSE LET ij == CHOOSE x \in MenuOwners(w, menu) : TRUE
         IN  [w EXCEPT !.layouts[ij[1]].children[ij[2]].items =
                           Append(@, [label |-> label, command |-> command])]

\* cmds.deleteUI(name)
deleteUI(w, name) ==
    IF ~LayoutExists(w, name) THEN [w EXCEPT !.raised = TRUE]
    ELSE LET k == CHOOSE i \in 1..Len(w.layouts) :
                      w.layouts[i].name = name /\ \A j \in 1..(i-1) : w.layouts[j].name # name
         IN  [w EXCEPT !.layouts = SubSeq(@, 1, k-1) \o SubSeq(@, k+1, Len(@)),
                       !.deletes = @ + 1]

(***************************************************************************)
(* Rendering                                                               *)
(***************************************************************************)
\* one iteration of the loop of add_buttons_from_path
add_button(w, path) ==
    LET tool_name == filter_py_mel(path)[1]
        command1 == filter_py_mel(path)[2]
        ic == find_icon(w, tool_name)
        command2_script == find_dcc_command(ic.w.fs, path)
        command2 == filter_py_mel(command2_script)[2]
        w1 == [ic.w EXCEPT !.src = IF w.role = "flat" THEN path ELSE @]
    IN  shelfButton(w1, ReplaceUnderscore(tool_name), command1, ic.value, command2)

RECURSIVE AddButtonsFrom(_, _, _, _)
AddButtonsFrom(w, tool_paths, i, shelf_butons) ==
    IF i > Len(tool_paths) THEN [w |-> w, buttons |-> shelf_butons]
    ELSE AddButtonsFrom(add_button(w, tool_paths[i]), tool_paths, i + 1, Append(shelf_butons, w.nextId))

\* add_buttons_from_path: [w |-> the world after the call, buttons |-> the returned handles]
add_buttons_from_path(w, tool_paths) == AddButtonsFrom(w, tool_paths, 1, EMPTY)

\* line 146 as dict.setdefault: a name already registered keeps its handle
register_popup_menu_once(w, tool_name, new_button) ==
    IF tool_name \in DOMAIN w.popup_menus THEN w
    ELSE [w EXCEPT !.popup_menus = SetKey(@, tool_name, new_button)]

\* lines 145-146: the button's popup menu is stored under tool_name
register_popup_menu(w, tool_name, new_button) ==
    [w EXCEPT !.popup_menus = SetKey(@, tool_name, new_button)]

\* lines 147-155: the menu items of the files left in the list
RECURSIVE AddMenuItemsFrom(_, _, _, _)
AddMenuItemsFrom(w, files, i, tool_name) ==
    IF i > Len(files) THEN w
    ELSE IF SuffixMatch(INITPY, files[i]) THEN AddMenuItemsFrom(w, files, i + 1, tool_name)
    ELSE LET filters == filter_py_mel(files[i])
             item_name == ReplaceUnderscore(filters[1])
         IN  AddMenuItemsFrom(menuItem(w, item_name, w.popup_menus[tool_name], filters[2]),
                              files, i + 1, tool_name)

\* one iteration of the loop of add_popup_button_from_paths, for the k-th
\* key of popup_tool_dict[category]; the list it shortens is the one the
\* object keeps
add_popup_button(w, category, k) ==
    LET tool_path == w.popup_tool_dict[category][k].path
        files == w.popup_tool_dict[category][k].files
        tool_name == Basename(tool_path)
        isButtonScript(script_path) == Search(ButtonScriptRe(tool_name), Basename(script_path))
        hits == SelectSeq(files, isButtonScript)
        found == hits # EMPTY
        left == IF found THEN RemoveFirst(files, hits[1]) ELSE files
        w1 == [w EXCEPT !.popup_tool_dict[category][k].files = left,
                        !.role = "popup", !.src = tool_path]
        new_button == w1.nextId
        w2 == IF found
              THEN add_buttons_from_path(w1, <<hits[1]>>).w
              ELSE LET ic == find_icon(w1, tool_name)
                   IN  shelfButton(ic.w, tool_name, EMPTY, ic.value, EMPTY)
        w3 == register_popup_menu(w2, tool_name, new_button)
    IN  AddMenuItemsFrom(w3, left, 1, tool_name)

RECURSIVE AddPopupsFrom(_, _, _)
AddPopupsFrom(w, category, k) ==
    IF k > Len(w.popup_tool_dict[category]) THEN w
    ELSE AddPopupsFrom(add_popup_button(w, category, k), category, k + 1)

add_popup_button_from_paths(w, category) == AddPopupsFrom(w, category, 1)

create_separator(w) == separator(w)

\* add_menu_item
add_menu_item(w, item_name, button_name, command) ==
    IF button_name \notin DOMAIN w.popup_menus THEN [w EXCEPT !.raised = TRUE]   \* KeyError
    ELSE menuItem(w, item_name, w.popup_menus[button_name], command)

\* add_command; icon_arg = None stands for the default icon_path=None
add_command(w, tool_name, icon_arg, command, dcc_command) ==
    LET ic == IF icon_arg = None THEN find_icon(w, tool_name) ELSE [w |-> w, value |-> icon_arg]
    IN  shelfButton([ic.w EXCEPT !.role = "adhoc", !.cat = EMPTY, !.src = EMPTY],
                    tool_name, command, ic.value, dcc_command)

(***************************************************************************)
(* Shelf lifecycle                                                         *)
(***************************************************************************)
\* lines 187-189 with the popup buttons rendered before the flat buttons
build_category_popup_first(w, category) ==
    LET w0 == [w EXCEPT !.cat = category]
        w1 == add_popup_button_from_paths(w0, category)
        w2 == add_buttons_from_path([w1 EXCEPT !.role = "flat"], w1.tool_paths[category]).w
    IN  create_separator(w2)

\* lines 187-189: one category of the build
build_category(w, category) ==
    LET w0 == [w EXCEPT !.cat = category, !.role = "flat"]
        w1 == add_buttons_from_path(w0, w0.tool_paths[category]).w
        w2 == add_popup_button_from_paths(w1, category)
    IN  create_separator(w2)

RECURSIVE BuildFrom(_, _)
BuildFrom(w, i) ==
    IF i > Len(w.categories) THEN w
    ELSE BuildFrom(build_category(w, w.categories[i]), i + 1)

\* lines 185-190
build_shelf(w) == BuildFrom(shelfLayout(w, shelf_name), 1)

RECURSIVE create_shelf(_), reload_shelf(_)
\* create_shelf without the exists test of line 184
create_shelf_no_test(w) == build_shelf(w)

create_shelf(w) ==
    IF ~LayoutExists(w, shelf_name) THEN build_shelf(w)
    ELSE reload_shelf(w)

reload_shelf(w) ==
    LET w1 == deleteUI(w, shelf_name)
    IN  IF w1.raised THEN w1 ELSE create_shelf(w1)

(***************************************************************************)
(* The filesystems the model starts from.                                  *)
(***************************************************************************)
RIG == <<"r", "i", "g">>
ANIM == <<"a", "n", "i", "m">>
BAR == <<"b", "a", "r">>
NOTES == <<"n", "o", "t", "e", "s", ".", "t", "x", "t">>
SNAP == <<"s", "n", "a", "p">>
BAZ == <<"b", "a", "z">>
WALK == <<"w", "a", "l", "k">>

RootNames == {RIG, ANIM, ICONS, NOTES}
FlatNames == {SNAP \o PY, SNAP \o DCC \o PY, SNAP \o DCC \o MEL,
              <<"m", "y", "_", "t", "o", "o", "l">> \o MEL,
              <<"a", ".", "b">> \o PY}
PopupNames == {BAR \o PY, <<"f", "o", "o">> \o BAR \o PY, BAZ \o PY, BAZ \o DCC \o PY, NOTES, INITPY}
IconNames == {SNAP \o <<".", "p", "n", "g">>, <<"x">> \o SNAP \o <<".", "s", "v", "g">>,
              BAR \o <<"j", "p", "e", "g">>}
ToolNames == {SNAP}
ButtonNames == {BAR, BAZ}

\* the lists of at most n different elements of S
SeqsNoRep(S, n) ==
    UNION {{q \in [1..k -> S] : \A i, j \in 1..k : i # j => q[i] # q[j]} : k \in 0..n}

BaseRig == <<SNAP \o PY, BAR>>
BaseBar == <<BAR \o PY, BAZ \o PY>>
AnimList == <<WALK \o MEL, BAR>>
AnimBarList == <<BAR \o MEL, BAZ \o PY>>

\* the tree shelf_directory/{rig/{..., bar/...}, anim/{walk.mel, bar/...}, icons/..., notes.txt}
MkFs(rootList, rigList, barList, iconsList) ==
    LET root == shelf_directory
        has(n) == n \in Range(rootList)
        dirs == {root}
                \cup (IF has(RIG) THEN {Join(root, RIG)} ELSE {})
                \cup (IF has(RIG) /\ BAR \in Range(rigList) THEN {Join(Join(root, RIG), BAR)} ELSE {})
                \cup (IF has(ANIM) THEN {Join(root, ANIM), Join(Join(root, ANIM), BAR)} ELSE {})
                \cup (IF has(ICONS) THEN {icon_path} ELSE {})
    IN  [dirs |-> dirs,
         list |-> [d \in dirs |->
                     IF d = root THEN rootList
                     ELSE IF d = Join(root, RIG) THEN rigList
                     ELSE IF d = Join(Join(root, RIG), BAR) THEN barList
                     ELSE IF d = Join(root, ANIM) THEN AnimList
                     ELSE IF d = Join(Join(root, ANIM), BAR) THEN AnimBarList
                     ELSE iconsList]]

NoRootFs == [dirs |-> {}, list |-> << >>]

RootFamily == {MkFs(rl, BaseRig, BaseBar, EMPTY) : rl \in SeqsNoRep(RootNames, MaxRootEntries)}
PopupFamily == {MkFs(<<RIG>>, BaseRig, bl, EMPTY) : bl \in SeqsNoRep(PopupNames, MaxPopupFiles)}
FlatFamily == {MkFs(<<RIG>>, fl \o <<BAR>>, BaseBar, EMPTY) : fl \in SeqsNoRep(FlatNames, MaxFlatFiles)}
IconFamily == {MkFs(<<ICONS, RIG>>, BaseRig, BaseBar, il) : il \in SeqsNoRep(IconNames, MaxIconFiles)}

Filesystems == {NoRootFs} \cup RootFamily \cup PopupFamily \cup FlatFamily \cup IconFamily

(***************************************************************************)
(* State                                                                   *)
(***************************************************************************)
VARIABLES
    fs,               \* the filesystem
    obj,              \* "none" before CustomShelf(...), then "ready", or "failed" when __init__ raised
    categories,       \* self.categories
    tool_paths,       \* self.tool_paths
    popup_tool_dict,  \* self.popup_tool_dict
    popup_menus,      \* self.popup_menus
    shelf,            \* self.shelf
    layouts,          \* the host's shelf layouts
    nextId,           \* the next widget handle of the host
    raised,           \* the last call raised
    deletes,          \* the number of deleteUI calls of the last call
    hist,             \* the methods called on the object so far
    firstContent,     \* the shelf's content after the first call, when that was create_shelf
    iconCall          \* the last direct call of find_icon

vars == <<fs, obj, categories, tool_paths, popup_tool_dict, popup_menus, shelf, layouts,
          nextId, raised, deletes, hist, firstContent, iconCall>>

\* the world a call starts in
World ==
    [fs |-> fs, categories |-> categories, tool_paths |-> tool_paths,
     popup_tool_dict |-> popup_tool_dict, popup_menus |-> popup_menus, shelf |-> shelf,
     layouts |-> layouts, nextId |-> nextId, raised |-> FALSE, deletes |-> 0,
     cat |-> EMPTY, role |-> "adhoc", src |-> EMPTY]

Commit(w) ==
    /\ fs' = w.fs
    /\ categories' = w.categories
    /\ tool_paths' = w.tool_paths
    /\ popup_tool_dict' = w.popup_tool_dict
    /\ popup_menus' = w.popup_menus
    /\ shelf' = w.shelf
    /\ layouts' = w.layouts
    /\ nextId' = w.nextId
    /\ raised' = w.raised
    /\ deletes' = w.deletes

\* what a shelf layout shows: per child its kind, label, command and menu items
ContentOf(children) ==
    [i \in 1..Len(children) |->
        [kind |-> children[i].kind, label |-> children[i].label,
         command |-> children[i].command, items |-> children[i].items]]

NamedLayouts(lays) == {i \in 1..Len(lays) : lays[i].name = shelf_name}

TheLayout(lays) == lays[CHOOSE i \in NamedLayouts(lays) : TRUE]

Init ==
    /\ fs \in Filesystems
    /\ obj = "none"
    /\ categories = EMPTY
    /\ tool_paths = << >>
    /\ popup_tool_dict = << >>
    /\ popup_menus = << >>
    /\ shelf = NoHandle
    /\ layouts = EMPTY
    /\ nextId = 1
    /\ raised = FALSE
    /\ deletes = 0
    /\ hist = EMPTY
    /\ firstContent = EMPTY
    /\ iconCall = [called |-> FALSE, tool_name |-> EMPTY, existed |-> FALSE, value |-> EMPTY]

\* CustomShelf(shelf_directory, shelf_name)
Construct ==
    /\ obj = "none"
    /\ LET w == get_all_tools(World, shelf_directory)
       IN  /\ Commit(w)
           /\ obj' = IF w.raised THEN "failed" ELSE "ready"
    /\ UNCHANGED <<hist, firstContent, iconCall>>

CanCall == obj = "ready" /\ Len(hist) < MaxCalls

CreateShelf ==
    /\ CanCall
    /\ LET w == create_shelf(World)
       IN  /\ Commit(w)
           /\ firstContent' = IF hist = EMPTY THEN ContentOf(TheLayout(w.layouts).children)
                              ELSE firstContent
    /\ hist' = Append(hist, "create_shelf")
    /\ UNCHANGED <<obj, iconCall>>

ReloadShelf ==
    /\ CanCall
    /\ Commit(reload_shelf(World))
    /\ hist' = Append(hist, "reload_shelf")
    /\ UNCHANGED <<obj, firstContent, iconCall>>

AddMenuItem ==
    /\ CanCall
    /\ \E button_name \in ButtonNames :
          Commit(add_menu_item(World, <<"x">>, button_name, PyCommand(<<"x">> \o PY)))
    /\ hist' = Append(hist, "add_menu_item")
    /\ UNCHANGED <<obj, firstContent, iconCall>>

AddCommand ==
    /\ CanCall
    /\ \E tool_name \in ToolNames, icon_arg \in {None, DefaultIcon} :
          Commit(add_command(World, tool_name, icon_arg, PyCommand(<<"x">> \o PY), EMPTY))
    /\ hist' = Append(hist, "add_command")
    /\ UNCHANGED <<obj, firstContent, iconCall>>

FindIcon ==
    /\ CanCall
    /\ \E tool_name \in ToolNames :
          LET r == find_icon(World, tool_name)
          IN  /\ Commit(r.w)
              /\ iconCall' = [called |-> TRUE, tool_name |-> tool_name,
                              existed |-> PathExists(fs, icon_path), value |-> r.value]
    /\ hist' = Append(hist, "find_icon")
    /\ UNCHANGED <<obj, firstContent>>

Next ==
    \/ Construct
    \/ CreateShelf
    \/ ReloadShelf
    \/ AddMenuItem
    \/ AddCommand
    \/ FindIcon

Spec == Init /\ [][Next]_vars

(***************************************************************************)
(* Properties                                                              *)
(***************************************************************************)
LastCall == IF hist = EMPTY THEN "none" ELSE hist[Len(hist)]
Built == LastCall \in {"create_shelf", "reload_shelf"} /\ ~raised
StartedWithCreate == hist # EMPTY /\ hist[1] = "create_shelf"
Children == TheLayout(layouts).children

\* s ends in the characters suf, taken literally
EndsWith(s, suf) == Len(s) >= Len(suf) /\ SubSeq(s, Len(s) - Len(suf) + 1, Len(s)) = suf

\* the command derived from a script's path
DerivedCommand(path) == filter_py_mel(path)[2]

\* C1: create_shelf called twice in succession on a fresh object leaves a
\* shelf with the same buttons, primary commands and popup menu items as
\* create_shelf called once.
C1_RebuildSameShelf ==
    hist = <<"create_shelf", "create_shelf">> => ContentOf(Children) = firstContent

\* C2: after any sequence of calls that starts with create_shelf the host
\* holds exactly one shelf container named shelf_name, and a create_shelf
\* or reload_shelf that found the container destroyed it exactly once.
C2_OneContainer ==
    StartedWithCreate =>
        /\ Len(layouts) = 1
        /\ Cardinality(NamedLayouts(layouts)) = 1
        /\ LastCall \in {"create_shelf", "reload_shelf"} =>
              /\ ~raised
              /\ deletes = IF Len(hist) = 1 THEN 0 ELSE 1

C2_Witness ==
    /\ hist = <<"create_shelf", "create_shelf", "reload_shelf">>
    /\ Len(layouts) = 1
    /\ deletes = 1
    /\ Len(Children) > 0

\* C3: in the first build, every popup-tool folder whose stored file list
\* holds a script named <folder>.py or <folder>.mel gets a popup button
\* whose primary command is that script's derived command, and one menu
\* item for each other file of the list except __init__.py.
C3_PopupButtonCommand ==
    [][(hist = EMPTY /\ hist' = <<"create_shelf">>) =>
        \A c \in DOMAIN popup_tool_dict : \A k \in 1..Len(popup_tool_dict[c]) :
            LET e == popup_tool_dict[c][k]
                tool_name == Basename(e.path)
                exact == {i \in 1..Len(e.files) :
                            Basename(e.files[i]) \in {tool_name \o PY, tool_name \o MEL}}
                kids == TheLayout(layouts').children
            IN  exact # {} =>
                  \E j \in 1..Len(kids) : \E i \in exact :
                     LET rest == {m \in 1..Len(e.files) : m # i /\ Basename(e.files[m]) # INITPY}
                     IN  /\ kids[j].role = "popup"
                         /\ kids[j].src = e.path
                         /\ kids[j].command = DerivedCommand(e.files[i])
                         /\ Len(kids[j].items) = Cardinality(rest)
                         /\ \A m \in rest :
                               Cardinality({n \in 1..Len(kids[j].items) :
                                   kids[j].items[n].command = DerivedCommand(e.files[m])}) = 1
    ]_vars

\* C4: for an existing root directory, construction completes without
\* error and the categories are exactly the immediate subdirectories of
\* the root other than "icons", in lexicographic order.
C4_CategoriesAreSubdirs ==
    (obj # "none" /\ hist = EMPTY /\ PathExists(fs, shelf_directory)) =>
        LET isCategory(n) == n # ICONS /\ IsDir(fs, Join(shelf_directory, n))
        IN  /\ obj = "ready"
            /\ categories = SortStrs(SelectSeq(fs.list[shelf_directory], isCategory))

\* the flat buttons of the first build whose script is named <foo>.py
FlatPyButtons == {j \in 1..Len(Children) : Children[j].role = "flat" /\ EndsWith(Children[j].src, PY)}

Siblings(path) == Range(fs.list[Dirname(path)])

\* C5: a flat tool script foo.py with a sibling foo_dcc.py gets the derived
\* command of foo_dcc.py as double-click command, whatever other files sit
\* next to it; with no sibling dcc script in either language the
\* double-click command is the empty string.
C5_DccIsPythonSibling ==
    hist = <<"create_shelf">> =>
        \A j \in FlatPyButtons :
            LET path == Children[j].src
                name == Basename(path)
                foo == SubSeq(name, 1, Len(name) - Len(PY))
                has_py == (foo \o DCC \o PY) \in Siblings(path)
                has_mel == (foo \o DCC \o MEL) \in Siblings(path)
            IN  /\ has_py => Children[j].dcc = PyCommand(Join(Dirname(path), foo \o DCC \o PY))
                /\ (~has_py /\ ~has_mel) => Children[j].dcc = EMPTY

\* C5 (amended): with stem the file name of foo.py up to its first dot,
\* the double-click command is the derived command of stem_dcc.mel when
\* that sibling exists, otherwise of stem_dcc.py when that sibling exists,
\* otherwise the empty string.
C5_DccPrefersMel ==
    hist = <<"create_shelf">> =>
        \A j \in FlatPyButtons :
            LET path == Children[j].src
                name == Basename(path)
                dot == CHOOSE i \in 1..Len(name) : name[i] = "." /\ \A n \in 1..(i-1) : name[n] # "."
                stem == SubSeq(name, 1, dot - 1)
                has_py == (stem \o DCC \o PY) \in Siblings(path)
                has_mel == (stem \o DCC \o MEL) \in Siblings(path)
            IN  /\ has_mel => Children[j].dcc = MelCommand(Join(Dirname(path), stem \o DCC \o MEL))
                /\ (has_py /\ ~has_mel) => Children[j].dcc = PyCommand(Join(Dirname(path), stem \o DCC \o PY))
                /\ (~has_py /\ ~has_mel) => Children[j].dcc = EMPTY

C5_Witness ==
    /\ hist = <<"create_shelf">>
    /\ \E j \in FlatPyButtons :
          /\ (SNAP \o DCC \o PY) \in Siblings(Children[j].src)
          /\ (SNAP \o DCC \o MEL) \in Siblings(Children[j].src)
          /\ Children[j].src = Join(Join(shelf_directory, RIG), SNAP \o PY)
          /\ Children[j].dcc = MelCommand(Join(Join(shelf_directory, RIG), SNAP \o DCC \o MEL))

\* C6: find_icon called while the icon directory exists and holds no file
\* matching the tool name returns the default icon identifier, the value
\* it returns when the icon directory is missing.
C6_FallbackIsDefaultIcon ==
    (/\ iconCall.called
     /\ iconCall.existed
     /\ \A n \in Range(fs.list[icon_path]) : ~Search(IconRe(iconCall.tool_name), n))
    => iconCall.value = DefaultIcon

\* C7: after construction every popup-tool folder's stored file list is
\* exactly the set of the folder's files that end in .py or .mel and do
\* not end in _dcc.py or _dcc.mel.
C7_PopupListFiltered ==
    (obj = "ready" /\ hist = EMPTY) =>
        \A c \in DOMAIN popup_tool_dict : \A k \in 1..Len(popup_tool_dict[c]) :
            LET e == popup_tool_dict[c][k]
                passes(n) == /\ EndsWith(n, PY) \/ EndsWith(n, MEL)
                             /\ ~EndsWith(n, DCC \o PY)
                             /\ ~EndsWith(n, DCC \o MEL)
            IN  Range(e.files) = {Join(e.path, n) : n \in {x \in Range(fs.list[e.path]) : passes(x)}}

\* C8: when the shelf root directory does not exist, construction raises
\* no error and leaves categories, tool_paths and popup_tool_dict empty,
\* and create_shelf then creates the shelf container with no buttons and
\* no separators.
C8_MissingRootEmptyShelf ==
    (obj # "none" /\ ~PathExists(fs, shelf_directory)) =>
        /\ obj = "ready"
        /\ hist = EMPTY => ~raised
        /\ categories = EMPTY
        /\ DOMAIN tool_paths = {}
        /\ DOMAIN popup_tool_dict = {}
        /\ LastCall = "create_shelf" =>
              /\ ~raised
              /\ Len(layouts) = 1
              /\ layouts[1].name = shelf_name
              /\ layouts[1].children = EMPTY

C8_Witness ==
    /\ ~PathExists(fs, shelf_directory)
    /\ hist = <<"create_shelf">>
    /\ Len(layouts) = 1
    /\ layouts[1].children = EMPTY

RoleRank(role) == IF role = "flat" THEN 1 ELSE IF role = "popup" THEN 2 ELSE 3

CatIndex(c) == CHOOSE i \in 1..Len(categories) : categories[i] = c

\* C9: a build creates the shelf container first and then handles the
\* categories in lexicographic order: per category the flat buttons, then
\* the popup buttons, then exactly one separator, before any widget of
\* the next category; there are as many separators as categories.
C9_BuildOrder ==
    Built =>
        LET lay == TheLayout(layouts)
            ch == lay.children
            seps == SelectSeq(ch, LAMBDA x : x.kind = "separator")
        IN  /\ \A i \in 1..Len(ch) : lay.id < ch[i].id
            /\ \A i, j \in 1..Len(ch) : i < j => ch[i].id < ch[j].id
            /\ \A i \in 1..(Len(categories) - 1) : StrLess(categories[i], categories[i + 1])
            /\ [i \in 1..Len(seps) |-> seps[i].cat] = categories
            /\ \A i \in 1..Len(ch) : ch[i].cat \in Range(categories)
            /\ \A i, j \in 1..Len(ch) : i < j =>
                  \/ CatIndex(ch[i].cat) < CatIndex(ch[j].cat)
                  \/ /\ ch[i].cat = ch[j].cat
                     /\ RoleRank(ch[i].role) <= RoleRank(ch[j].role)
                     /\ ch[i].role # "separator"

C9_Witness ==
    /\ Built
    /\ Len(categories) = 2
    /\ fs.list[shelf_directory][1] = RIG
    /\ \E i, j \in 1..Len(Children) :
          /\ Children[i].cat = RIG /\ Children[i].role = "flat"
          /\ Children[j].cat = RIG /\ Children[j].role = "popup"
    /\ \E i, j \in 1..Len(Children) :
          /\ Children[i].cat = ANIM /\ Children[i].role = "flat"
          /\ Children[j].cat = ANIM /\ Children[j].role = "popup"

\* the handles of the popup menus of the buttons of the live shelf
LiveMenus ==
    {Children[j].id : j \in {n \in 1..Len(Children) : Children[n].kind = "button"}}

\* C10: after any sequence of calls that starts with create_shelf, every
\* handle in popup_menus is the popup menu of a button of the live shelf
\* container, which is the one self.shelf names.
C10_RegistryIsLive ==
    StartedWithCreate =>
        /\ TheLayout(layouts).id = shelf
        /\ \A name \in DOMAIN popup_menus : popup_menus[name] \in LiveMenus

C10_Witness ==
    /\ hist = <<"create_shelf", "reload_shelf", "add_menu_item">>
    /\ ~raised
    /\ BAR \in DOMAIN popup_menus
    /\ \E j \in 1..Len(Children) :
          /\ Children[j].id = popup_menus[BAR]
          /\ \E n \in 1..Len(Children[j].items) : Children[j].items[n].label = <<"x">>

====
